---- MODULE Spec2Model ----
(***************************************************************************)
(* A model of dali2hass: the DALI <-> Home Assistant (MQTT) bridge.        *)
(*                                                                         *)
(*   drivers/daliserver.py  the wire driver (DaliServer._send)             *)
(*   hass.py                entities, HomeAssistant (publication, debounce,*)
(*                          the scheduler loop HomeAssistant.run)          *)
(*   dali.py                Bridge, Group, Light (scan, poll, command)     *)
(*                                                                         *)
(* Time is kept relative to the present: `now` is always 0, every stored   *)
(* timestamp (last_update, a pending message's release time, a snapshot    *)
(* deadline) is an offset from it, and letting d seconds pass subtracts d  *)
(* from all of them.  Offsets older than MaxAge are renumbered keeping     *)
(* their order and their ties, which is all the code can observe of them.  *)
(*                                                                         *)
(* Python values that are not numbers are coded as negative integers:      *)
(* None, and the strings "MASK", "no response", "framing error" that the   *)
(* python-dali response classes return in place of a number.               *)
(***************************************************************************)
EXTENDS Integers, Sequences, FiniteSets, TLC

VARIABLES
    lights,          \* Bridge.lights: address -> the Light object's fields
    groups,          \* Bridge.groups: the Group objects, in creation order
    bridge,          \* Bridge: dry_run, groups_supported, has_emergency_units,
                     \*         init_complete, scene_entities, gear_config
    hass,            \* HomeAssistant: connected, entities, command_topics,
                     \*   pending_state_messages, the entities' .state, and
                     \*   mqttc: what was published in this loop iteration
    bus,             \* DaliServer as the bridge uses it: _s open or not, and
                     \*   the transactions and frames of this loop iteration
    pc,              \* where HomeAssistant.run is
    current_tasks,   \* run's local: the sorted (deadline, task) snapshot
    timeout,         \* run's local
    connack,         \* the broker's CONNACK has not been delivered yet
    ran,             \* what run invoked in this iteration (idle, background)
    wire,            \* the driver: one DaliServer._send exchange (command,
                     \*   replies, outcome) or one DaliServer.send call
    traffic          \* inbound MQTT messages and connection losses so far

vars == <<lights, groups, bridge, hass, bus, pc, current_tasks, timeout,
          connack, ran, wire, traffic>>

(***************************************************************************)
(* Bounds of the model.                                                    *)
(***************************************************************************)
MaxAddress == 1      \* --max-address: lights at addresses 0..MaxAddress
MaxScene == 0        \* scenes 0..MaxScene are queried (the code: range(16))
MaxGroup == 0        \* groups 0..MaxGroup can be reported by QueryGroups
MaxAge == 3          \* offsets older than this are renumbered
MaxTraffic == 1      \* inbound MQTT messages and connection losses in a run
MaxBrightness == 4   \* brightness values an inbound command may carry

(***************************************************************************)
(* Program constants and configuration.                                    *)
(***************************************************************************)
poll_interval == 2       \* config "poll_interval" (default 60.0), seconds
Debounce == 1            \* hass.py: time.time() + 1.0
IdleTimeout == 60        \* hass.py: timeout = 60.0
now == 0                 \* time.time(), the origin of all offsets
PhysMinNoDimming == 254  \* dali.py: physical_minimum == 254
StatusNoAnswer == 0      \* daliserver.py: status == 0
StatusAnswer == 1        \* daliserver.py: status == 1
StatusFailure == 255     \* daliserver.py: status == 255
FrameBits == 16          \* daliserver.py: len(f) != 16
YesValue == 255          \* a backward frame 0xff is "Yes" / MASK
DtEmergency == 1         \* dali.py: 1 in dts
DtRelay == 7             \* dali.py: 7 in dts

None == -4               \* Python None
MASK == -1               \* NumericResponseMask.value for 255
NoResponse == -2         \* .value string for a missing backward frame
FramingError == -3       \* .value string for a backward frame in error

Addresses == 0..MaxAddress
Scenes == 0..MaxScene
GroupNumbers == 0..MaxGroup

isinstance_str(v) == v \in {MASK, NoResponse, FramingError}
IsNumber(v) == v >= 0

Min(a, b) == IF a <= b THEN a ELSE b
Max(a, b) == IF a >= b THEN a ELSE b
Range(s) == {s[i] : i \in 1..Len(s)}

(***************************************************************************)
(* drivers/daliserver.py: one forward/backward frame exchange.             *)
(***************************************************************************)

\* A command as _send reads it: .frame (its length), .sendtwice, .response
\* (the response class or None), .devicetype.
Command(name, response, sendtwice, devicetype, bits) ==
    [name |-> name, response |-> response, sendtwice |-> sendtwice,
     devicetype |-> devicetype, bits |-> bits]

Commands ==
    { Command("QueryControlGearPresent", "YesNoResponse", FALSE, 0, 16),
      Command("QueryLampFailure", "YesNoResponse", FALSE, 0, 16),
      Command("QueryActualLevel", "NumericResponseMask", FALSE, 0, 16),
      Command("QuerySceneLevel", "NumericResponseMask", FALSE, 0, 16),
      Command("QueryPhysicalMinimum", "NumericResponse", FALSE, 0, 16),
      Command("QueryMinLevel", "NumericResponse", FALSE, 0, 16),
      Command("QueryMaxLevel", "NumericResponse", FALSE, 0, 16),
      Command("QueryEmergencyFeatures", "NumericResponse", FALSE, 1, 16),
      Command("DAPC", "None", FALSE, 0, 16),
      Command("Off", "None", FALSE, 0, 16),
      Command("RecallMinLevel", "None", FALSE, 0, 16),
      Command("RecallMaxLevel", "None", FALSE, 0, 16),
      Command("GoToScene", "None", FALSE, 0, 16),
      Command("Inhibit", "None", TRUE, 1, 16),
      Command("ReLightResetInhibit", "None", TRUE, 1, 16),
      Command("EnableDeviceType", "None", FALSE, 0, 16),
      Command("QueryInputValue", "NumericResponse", FALSE, 0, 24) }

CommandNamed(name) == CHOOSE c \in Commands : c.name = name

\* The gateway's 4-byte reply: [version, status, rval, pad].
Reply(status, rval) == [status |-> status, rval |-> rval]

\* What the response class is built from: None, BackwardFrame(rval) or
\* BackwardFrameError(255).
FrameNone == [frame |-> "None", val |-> 0]
BackwardFrame(v) == [frame |-> "BackwardFrame", val |-> v]
BackwardFrameError(v) == [frame |-> "BackwardFrameError", val |-> v]

Return(r) == [raised |-> "", response |-> r]
Raise(e) == [raised |-> e, response |-> FrameNone]
ResponseNone == [frame |-> "NoResponseObject", val |-> 0]

\* DaliServer._send with status 255 raised as an error (a mutant).
_send_raises_on_255(command, first, second) ==
    IF command.bits # FrameBits THEN Raise("UnsupportedFrameTypeError")
    ELSE LET result == IF command.sendtwice THEN second ELSE first
         IN  IF command.response # "None"
             THEN IF result.status = StatusNoAnswer THEN Return(FrameNone)
                  ELSE IF result.status = StatusAnswer
                      THEN Return(BackwardFrame(result.rval))
                  ELSE Raise("CommunicationError")
             ELSE Return(ResponseNone)

\* DaliServer._send(s, command): `first` is the reply to the transmission,
\* `second` the reply to the repeat of a send-twice command.
_send(command, first, second) ==
    IF command.bits # FrameBits THEN Raise("UnsupportedFrameTypeError")
    ELSE LET result == IF command.sendtwice THEN second ELSE first
         IN  IF command.response # "None"
             THEN IF result.status = StatusNoAnswer THEN Return(FrameNone)
                  ELSE IF result.status = StatusAnswer
                      THEN Return(BackwardFrame(result.rval))
                  ELSE IF result.status = StatusFailure
                      THEN Return(BackwardFrameError(YesValue))
                  ELSE Raise("CommunicationError")
             ELSE Return(ResponseNone)

\* python-dali's response classes, as dali.py reads their .value: a yes/no
\* response is True for a backward frame 0xff, in error or not; a numeric
\* response is the number, or a string when the frame is missing or in
\* error; a masked numeric response reads 255 as "MASK".
YesNoValue(r) == r.frame \in {"BackwardFrame", "BackwardFrameError"}
                 /\ r.val = YesValue

NumericValue(r) ==
    IF r.frame = "None" THEN NoResponse
    ELSE IF r.frame = "BackwardFrameError" THEN FramingError
    ELSE r.val

NumericMaskValue(r) ==
    IF r.frame = "None" THEN NoResponse
    ELSE IF r.frame = "BackwardFrameError" THEN FramingError
    ELSE IF r.val = YesValue THEN MASK
    ELSE r.val

\* command.response(frame).value
value(command, r) ==
    IF command.response = "YesNoResponse"
        THEN (IF YesNoValue(r) THEN 1 ELSE 0)
    ELSE IF command.response = "NumericResponseMask" THEN NumericMaskValue(r)
    ELSE NumericValue(r)

\* b.send(Command(...)).value for a single command without device type.
send_value(name, reply) ==
    value(CommandNamed(name), _send(CommandNamed(name), reply, reply).response)


(***************************************************************************)
(* hass.py: entities and the HomeAssistant object.                         *)
(*                                                                         *)
(* An entity is named by its unique id, written <<kind, number>>.  The     *)
(* value of an entity's .state, and the payload of a message, is <<>> for  *)
(* None and otherwise a pair <<text, number>>, None standing for a part    *)
(* that is absent: "Running" is <<"Running", None>>, the sensor value 3 is *)
(* <<"", 3>>, json.dumps({"state": "ON", "brightness": 3}) is <<"ON", 3>>. *)
(***************************************************************************)
StatusEntity == <<"status", 0>>
RescanEntity == <<"rescan", 0>>
InhibitEntity == <<"inhibit", 0>>
ResetInhibitEntity == <<"reset_inhibit", 0>>
LightEntity(a) == <<"light", a>>
LampFailureEntity(a) == <<"failure", a>>
PhysicalMinimumEntity(a) == <<"physical_minimum", a>>
SceneEntity(s) == <<"scene", s>>
GroupEntity(g) == <<"group", g>>

AllEntities ==
    {StatusEntity, RescanEntity, InhibitEntity, ResetInhibitEntity}
    \cup {LightEntity(a) : a \in Addresses}
    \cup {LampFailureEntity(a) : a \in Addresses}
    \cup {PhysicalMinimumEntity(a) : a \in Addresses}
    \cup {SceneEntity(s) : s \in Scenes}
    \cup {GroupEntity(g) : g \in GroupNumbers}

\* hasattr(entity, "state_topic"): sensors, binary sensors and lights.
has_state_topic(e) ==
    e[1] \in {"status", "light", "failure", "physical_minimum", "group"}

\* hasattr(entity, "command_topic"): buttons, scenes and lights.
has_command_topic(e) ==
    e[1] \in {"rescan", "inhibit", "reset_inhibit", "scene", "light", "group"}

NoState == <<>>
Text(t) == <<t, None>>
Number(n) == <<"", n>>

\* json.dumps(sd) of Light.update_state's dictionary.
json_dumps(sd) == <<sd.state, sd.brightness>>

ConfigMessage(e) == [kind |-> "config", entity |-> e, payload |-> NoState]
StateMessage(e, p) == [kind |-> "state", entity |-> e, payload |-> p]

\* self.mqttc.publish(topic, payload)
publish(h, m) == [h EXCEPT !.mqttc = Append(@, m)]


\* HomeAssistant.update(entity, send_discovery)
update(h, e, send_discovery) ==
    IF ~h.connected THEN h
    ELSE LET h1 == IF send_discovery THEN publish(h, ConfigMessage(e)) ELSE h
         IN  IF has_state_topic(e) /\ h1.state[e] # NoState
             THEN IF send_discovery
                  THEN [h1 EXCEPT !.pending_state_messages =
                            Append(@, [t |-> now + Debounce, topic |-> e,
                                       payload |-> h1.state[e]])]
                  ELSE publish(h1, StateMessage(e, h1.state[e]))
             ELSE h1

\* HomeAssistant.register_entity(entity)
register_entity(h, e) ==
    update([h EXCEPT !.entities = Append(@, e),
                     !.command_topics =
                         IF has_command_topic(e) THEN @ \cup {e} ELSE @],
           e, TRUE)

\* hasattr(entity, "_hass"): set by register_entity.
has_hass(h, e) == e \in Range(h.entities)

\* set_state without `self.state != prev_state` (a mutant: every call
\* publishes)
set_state_always(h, e, encoded) ==
    LET h1 == [h EXCEPT !.state[e] = encoded]
    IN  IF has_hass(h, e) THEN update(h1, e, FALSE) ELSE h1

\* The common body of the three set_state methods: `encoded` is the new
\* value of self.state.
set_state(h, e, encoded) ==
    LET prev_state == h.state[e]
        h1 == [h EXCEPT !.state[e] = encoded]
    IN  IF has_hass(h, e) /\ encoded # prev_state THEN update(h1, e, FALSE)
        ELSE h1

\* SensorEntity.set_state(state): the value as it is.
SensorEntity_set_state(h, e, state) == set_state(h, e, state)

\* BinarySensorEntity.set_state(state): "ON" if state else "OFF".
BinarySensorEntity_set_state(h, e, state) ==
    set_state(h, e, IF state THEN Text("ON") ELSE Text("OFF"))

\* LightEntity.set_state(state): json.dumps(state).
LightEntity_set_state(h, e, sd) == set_state(h, e, json_dumps(sd))

\* HomeAssistant.update_all over self.entities[i..]
RECURSIVE update_from(_, _)
update_from(h, i) ==
    IF i > Len(h.entities) THEN h
    ELSE update_from(update(h, h.entities[i], TRUE), i + 1)

\* HomeAssistant.update_all()
update_all(h) == update_from(h, 1)

\* HomeAssistant.__init__
HomeAssistant_init ==
    [connected |-> FALSE, entities |-> <<>>, command_topics |-> {},
     pending_state_messages |-> <<>>,
     state |-> [e \in AllEntities |-> NoState], mqttc |-> <<>>]


(***************************************************************************)
(* dali.py.  The handlers are sequential code: each is an operator from    *)
(* the program state w = [lights, groups, bridge, hass, bus, exc] to the   *)
(* state it leaves.  w.exc names the exception that escaped, "" for none.  *)
(***************************************************************************)
Broadcast == 0 - 1

raise(w, e) == [w EXCEPT !.exc = e]

\* DaliServer.__enter__ / __exit__ and the frames sent in between, as the
\* record of this loop iteration.
enter(w, a) == [w EXCEPT !.bus._s = TRUE, !.bus.log = Append(@, <<"connect", a>>)]
\* __exit__ without lines 43-44 (a mutant: the socket stays open)
exit_keeps_socket(w, a) == [w EXCEPT !.bus.log = Append(@, <<"close", a>>)]
exit(w, a) == [w EXCEPT !.bus._s = FALSE, !.bus.log = Append(@, <<"close", a>>)]
sent(w, name, a) == [w EXCEPT !.bus.log = Append(@, <<name, a>>)]
\* socket.create_connection raises: no connection, no __exit__.
enter_fails(w, a) ==
    raise([w EXCEPT !.bus.log = Append(@, <<"connect failed", a>>)], "OSError")

\* Light.__init__
Light_init ==
    [scanned |-> FALSE, is_light |-> FALSE, last_update |-> now,
     scenes |-> [s \in Scenes |-> None], groups |-> {},
     physical_minimum |-> None, min_level |-> None, max_level |-> None,
     previous_active_level |-> None, current_level |-> None,
     lamp_failure |-> FALSE, supports_brightness |-> TRUE,
     device |-> FALSE, light_entity |-> FALSE,
     lamp_failure_entity |-> FALSE, physical_minimum_entity |-> FALSE]

\* Group.__init__
Group_init(address) ==
    [number |-> address, members |-> {}, light_entity |-> FALSE,
     supports_brightness |-> FALSE, min_level |-> 254, max_level |-> 1]

\* Light.deadline(): None for "no callback needed".
Immediate == 0 - (MaxAge + MaxAddress + 1)

deadline(l) ==
    IF ~l.scanned THEN Immediate
    ELSE IF l.is_light THEN l.last_update + poll_interval
    ELSE None

HasDeadline(l) == ~l.scanned \/ l.is_light

\* Bridge.update_status(message=None)
update_status(w) ==
    [w EXCEPT !.hass = SensorEntity_set_state(
        @, StatusEntity,
        IF w.bridge.dry_run THEN Text("Test mode") ELSE Text("Running"))]

\* add_scene without the test of line 113: a scene entity per report
add_scene_again(w, scene) ==
    [w EXCEPT !.bridge.scene_entities = @ \cup {scene},
              !.hass = register_entity(@, SceneEntity(scene))]

\* Bridge.add_scene(scene)
add_scene(w, scene) ==
    IF scene \in w.bridge.scene_entities THEN w
    ELSE [w EXCEPT !.bridge.scene_entities = @ \cup {scene},
                   !.hass = register_entity(@, SceneEntity(scene))]

\* Bridge.add_emergency_unit()
add_emergency_unit(w) ==
    IF w.bridge.has_emergency_units THEN w
    ELSE [w EXCEPT !.bridge.has_emergency_units = TRUE,
                   !.hass = register_entity(
                                register_entity(@, InhibitEntity),
                                ResetInhibitEntity)]

GroupIndex(gs, g) == CHOOSE i \in 1..Len(gs) : gs[i].number = g
HasGroup(gs, g) == \E i \in 1..Len(gs) : gs[i].number = g


\* Group.add_member(light)
add_member(grp, a, l) ==
    [grp EXCEPT !.members = @ \cup {a},
                !.supports_brightness = IF l.supports_brightness THEN TRUE ELSE @,
                !.min_level = Min(@, l.min_level),
                !.max_level = Max(@, l.max_level)]

\* Bridge.add_to_group(group, light); min() and max() of a number and a
\* string raise TypeError.
add_to_group(w, g, a) ==
    LET gs == IF HasGroup(w.groups, g) THEN w.groups
              ELSE Append(w.groups, Group_init(g))
        i == GroupIndex(gs, g)
        l == w.lights[a]
    IN  IF ~IsNumber(l.min_level)
            THEN raise([w EXCEPT !.groups =
                            [gs EXCEPT ![i].members = @ \cup {a},
                                       ![i].supports_brightness =
                                           IF l.supports_brightness THEN TRUE ELSE @]],
                       "TypeError")
        ELSE IF ~IsNumber(l.max_level)
            THEN raise([w EXCEPT !.groups =
                            [gs EXCEPT ![i].members = @ \cup {a},
                                       ![i].supports_brightness =
                                           IF l.supports_brightness THEN TRUE ELSE @,
                                       ![i].min_level = Min(@, l.min_level)]],
                       "TypeError")
        ELSE [w EXCEPT !.groups = [gs EXCEPT ![i] = add_member(@, a, l)]]

\* Group.announce()
announce(w, i) ==
    [w EXCEPT !.groups[i].light_entity = TRUE,
              !.hass = register_entity(@, GroupEntity(w.groups[i].number))]

RECURSIVE announce_from(_, _)
announce_from(w, i) ==
    IF i > Len(w.groups) THEN w ELSE announce_from(announce(w, i), i + 1)

\* idle without the test of init_complete (line 170): the groups are
\* announced whenever the loop is idle
idle_every_time(w) ==
    LET w1 == [w EXCEPT !.bridge.init_complete = TRUE]
        w2 == IF w1.bridge.groups_supported THEN announce_from(w1, 1)
              ELSE w1
    IN  update_status(w2)

\* Bridge.idle()
idle(w) ==
    IF w.bridge.init_complete THEN w
    ELSE LET w1 == [w EXCEPT !.bridge.init_complete = TRUE]
             w2 == IF w1.bridge.groups_supported THEN announce_from(w1, 1)
                   ELSE w1
         IN  update_status(w2)

\* Light.update_state(); a level that is a string or None makes
\* `self.current_level > 0` raise TypeError.
update_state(w, a) ==
    LET l == w.lights[a]
        sd == [state |-> IF l.current_level > 0 THEN "ON" ELSE "OFF",
               brightness |-> IF l.supports_brightness /\ l.current_level > 0
                              THEN l.current_level ELSE None]
        h1 == IF l.light_entity
              THEN LightEntity_set_state(w.hass, LightEntity(a), sd)
              ELSE w.hass
        h2 == IF l.lamp_failure_entity
              THEN BinarySensorEntity_set_state(h1, LampFailureEntity(a),
                                                l.lamp_failure)
              ELSE h1
    IN  IF ~IsNumber(l.current_level) THEN raise(w, "TypeError")
        ELSE [w EXCEPT !.hass = h2]


(***************************************************************************)
(* Light.scan().  `r` holds what the bus answers: r.fault (the connection  *)
(* cannot be opened), the gateway's replies to the queries, the result of  *)
(* the QueryDeviceTypes sequence (r.dts_ok false: DALISequenceError), the  *)
(* emergency features bit and the result of the QueryGroups sequence.      *)
(***************************************************************************)

\* lines 358-396: the entities, created once, and their state
scan_entities(w, a) ==
    LET l == w.lights[a]
        w1 == [w EXCEPT !.lights[a].device = TRUE]
        w2 == IF ~l.light_entity
              THEN [w1 EXCEPT !.lights[a].light_entity = TRUE,
                              !.hass = register_entity(@, LightEntity(a))]
              ELSE w1
        w3 == IF ~l.lamp_failure_entity
              THEN [w2 EXCEPT !.lights[a].lamp_failure_entity = TRUE,
                              !.hass = register_entity(@, LampFailureEntity(a))]
              ELSE w2
        w4 == IF ~l.physical_minimum_entity
              THEN [w3 EXCEPT !.lights[a].physical_minimum_entity = TRUE,
                              !.hass = register_entity(@, PhysicalMinimumEntity(a))]
              ELSE w3
        w5 == [w4 EXCEPT !.hass = SensorEntity_set_state(
                             @, PhysicalMinimumEntity(a),
                             Number(l.physical_minimum))]
        w6 == [w5 EXCEPT !.lights[a].is_light = TRUE]
    IN  update_state(w6, a)

\* the list comprehension of line 355, over the groups reported
RECURSIVE join_groups(_, _, _, _)
join_groups(w, a, reported, g) ==
    IF g > MaxGroup THEN w
    ELSE IF g \notin reported THEN join_groups(w, a, reported, g + 1)
    ELSE LET w1 == add_to_group(w, g, a)
         IN  IF w1.exc # "" THEN w1
             ELSE join_groups(w1, a, reported, g + 1)

\* lines 354-356
scan_groups(w, a, r) ==
    IF ~w.bridge.groups_supported THEN scan_entities(w, a)
    ELSE LET w1 == join_groups(sent(w, "QueryGroups", a), a, r.groups, 0)
         IN  IF w1.exc # "" THEN w1
             ELSE scan_entities([w1 EXCEPT !.lights[a].groups = r.groups], a)

\* lines 343-352, from `scene` on
RECURSIVE scan_scenes(_, _, _, _)
scan_scenes(w, a, r, scene) ==
    IF scene > MaxScene THEN scan_groups(w, a, r)
    ELSE LET sl == send_value("QuerySceneLevel", r.scene[scene])
             w1 == sent(w, "QuerySceneLevel", a)
         IN  IF sl = MASK THEN scan_scenes(w1, a, r, scene + 1)
             ELSE IF isinstance_str(sl) THEN w1
             ELSE scan_scenes(
                      add_scene([w1 EXCEPT !.lights[a].scenes[scene] = sl],
                                scene),
                      a, r, scene + 1)

\* `self.current_level or self.max_level`: 0 is false, a string is true.
seed_previous_active_level(current_level, max_level) ==
    IF current_level = 0 THEN max_level ELSE current_level

\* lines 319-342
scan_levels(w, a, r) ==
    LET relay == DtRelay \in r.dts
        physical_minimum ==
            send_value("QueryPhysicalMinimum", r.physical_minimum)
        config == w.bridge.gear_config[a]
        supports_brightness ==
            IF config # "absent" THEN config = "true"
            ELSE IF physical_minimum = PhysMinNoDimming THEN FALSE
            ELSE ~relay
        min_level == send_value("QueryMinLevel", r.min_level)
        max_level == send_value("QueryMaxLevel", r.max_level)
        actual == send_value("QueryActualLevel", r.actual)
        masked == actual = MASK
        lamp_failure ==
            IF masked THEN send_value("QueryLampFailure", r.lamp_failure) = 1
            ELSE w.lights[a].lamp_failure
        current_level == IF masked THEN 0 ELSE actual
        w1 == sent(sent(sent(sent(w, "QueryPhysicalMinimum", a),
                   "QueryMinLevel", a), "QueryMaxLevel", a),
                   "QueryActualLevel", a)
        w2 == IF masked THEN sent(w1, "QueryLampFailure", a) ELSE w1
        w3 == [w2 EXCEPT
                 !.lights[a].supports_brightness = supports_brightness,
                 !.lights[a].physical_minimum = physical_minimum,
                 !.lights[a].min_level = min_level,
                 !.lights[a].max_level = max_level,
                 !.lights[a].lamp_failure = lamp_failure,
                 !.lights[a].current_level = current_level,
                 !.lights[a].previous_active_level =
                     seed_previous_active_level(current_level, max_level),
                 !.lights[a].scenes = [s \in Scenes |-> None]]
    IN  scan_scenes(w3, a, r, 0)

\* lines 300-318
scan_body(w, a, r) ==
    LET w1 == sent(w, "QueryControlGearPresent", a)
        present == send_value("QueryControlGearPresent", r.present) = 1
        w2 == sent(w1, "QueryDeviceTypes", a)
        w3 == sent(add_emergency_unit(w2), "QueryEmergencyFeatures", a)
    IN  IF ~present THEN w1
        ELSE IF ~r.dts_ok THEN w2
        ELSE IF DtEmergency \in r.dts
            THEN (IF ~r.switched THEN w3 ELSE scan_levels(w3, a, r))
        ELSE scan_levels(w2, a, r)

\* Light.scan()
scan(w, a, r) ==
    LET w0 == [w EXCEPT !.lights[a].scanned = TRUE,
                        !.lights[a].supports_brightness = TRUE]
    IN  IF r.fault THEN enter_fails(w0, a)
        ELSE exit(scan_body(enter(w0, a), a, r), a)

(***************************************************************************)
(* Light.background(), for a scanned light: the poll.                      *)
(***************************************************************************)


\* lines 289-291
poll_level(l, new_level) ==
    [l EXCEPT !.previous_active_level =
                  IF new_level = 0 /\ l.current_level # 0
                  THEN l.current_level ELSE @,
              !.current_level = new_level]

\* lines 277-293
poll(w, a, r) ==
    LET new_level == send_value("QueryActualLevel", r.actual)
        w1 == sent(enter(w, a), "QueryActualLevel", a)
        w2 == IF new_level = MASK
              THEN [sent(w1, "QueryLampFailure", a) EXCEPT
                       !.lights[a].lamp_failure =
                           send_value("QueryLampFailure", r.lamp_failure) = 1]
              ELSE [w1 EXCEPT !.lights[a] = poll_level(@, new_level)]
    IN  IF r.fault THEN enter_fails(w, a)
        ELSE IF new_level # MASK /\ isinstance_str(new_level) THEN exit(w1, a)
        ELSE update_state([exit(w2, a) EXCEPT !.lights[a].last_update = now], a)

\* Light.background()
background(w, a, r) ==
    IF ~w.lights[a].scanned THEN scan(w, a, r)
    ELSE IF ~w.lights[a].is_light THEN w
    ELSE poll(w, a, r)


(***************************************************************************)
(* Light.command(sd): the "set state" command.  sd.state is "ON", "OFF" or *)
(* "absent"; sd.brightness and sd.transition are a number or None.         *)
(***************************************************************************)

\* Light.send_cmd without the test of dry_run (a mutant)
send_cmd_always(w, a, name, fault) ==
    IF fault THEN enter_fails(w, a)
    ELSE exit(sent(enter(w, a), name, a), a)

\* Light.send_cmd(command); `fault`: the connection cannot be opened.
send_cmd(w, a, name, fault) ==
    IF w.bridge.dry_run THEN w
    ELSE IF fault THEN enter_fails(w, a)
    ELSE exit(sent(enter(w, a), name, a), a)

\* lines 419-424
target_level(l, sd) ==
    IF sd.state = "absent" \/ sd.state = "OFF" THEN 0
    ELSE IF sd.brightness = None THEN l.previous_active_level
    ELSE sd.brightness

\* line 425 without `target_level == 0` (a mutant: the level is saved on
\* every command)
saves_level_always(target, current_level) == current_level > 0

\* line 425 never true (a mutant: the level is never saved)
saves_level_never(target, current_level) == FALSE

\* line 425: target_level == 0 and self.current_level > 0
saves_level(target, current_level) == target = 0 /\ current_level > 0


\* lines 435-452 without the recall of the limits (a mutant: DAPC for every
\* nonzero target)
instant_level_unclamped(l, target) ==
    IF target = 0 THEN [name |-> "Off", level |-> 0]
    ELSE [name |-> "DAPC", level |-> target]

\* lines 435-452: the primitive chosen and the level stored
instant_level(l, target) ==
    IF target = 0 THEN [name |-> "Off", level |-> 0]
    ELSE IF target <= l.min_level
        THEN [name |-> "RecallMinLevel", level |-> l.min_level]
    ELSE IF target >= l.max_level
        THEN [name |-> "RecallMaxLevel", level |-> l.max_level]
    ELSE [name |-> "DAPC", level |-> target]

\* lines 427-431: DAPC with the target, stored as it is
transition_level(l, target) == target

\* `if transition:`
truthy(v) == v # None /\ v # 0

\* lines 453-454
command_done(w, a) ==
    IF w.exc # "" THEN w
    ELSE update_state([w EXCEPT !.lights[a].last_update = now], a)

\* Light.command(sd).  Comparing a string or None with a number raises
\* TypeError; DAPC of something that is not a number raises ValueError.
command(w, a, sd, fault) ==
    LET l == w.lights[a]
        target == target_level(l, sd)
        w1 == IF saves_level(target, l.current_level)
              THEN [w EXCEPT !.lights[a].previous_active_level = l.current_level]
              ELSE w
        chosen == instant_level(l, target)
        dapc == send_cmd(w1, a, "DAPC", fault)
        instant == send_cmd(w1, a, chosen.name, fault)
    IN  IF target = 0 /\ ~IsNumber(l.current_level) THEN raise(w, "TypeError")
        ELSE IF truthy(sd.transition)
            THEN (IF ~IsNumber(target) THEN raise(w1, "ValueError")
                  ELSE IF dapc.exc # "" THEN dapc
                  ELSE command_done(
                      [dapc EXCEPT !.lights[a].current_level =
                                       transition_level(l, target)], a))
        ELSE IF target # 0 /\ (~IsNumber(target) \/ ~IsNumber(l.min_level)
                               \/ (target > l.min_level
                                   /\ ~IsNumber(l.max_level)))
            THEN raise(w1, "TypeError")
        ELSE IF instant.exc # "" THEN instant
        ELSE command_done(
                 [instant EXCEPT !.lights[a].current_level = chosen.level], a)


\* lines 460-464 without 460-461 (a mutant: the level left is not saved)
scene_level_unsaved(l, new_level) ==
    [l EXCEPT !.current_level = new_level, !.last_update = now]

\* lines 460-464
scene_level(l, new_level) ==
    [l EXCEPT !.previous_active_level =
                  IF new_level = 0 /\ l.current_level # 0
                  THEN l.current_level ELSE @,
              !.current_level = new_level,
              !.last_update = now]

\* Light.notify_scene(scene)
notify_scene(w, a, scene) ==
    IF w.lights[a].scenes[scene] = None THEN w
    ELSE update_state(
             [w EXCEPT !.lights[a] = scene_level(@, w.lights[a].scenes[scene])],
             a)

\* Light.notify_group_action(new_level): no caller in the repository
notify_group_action(w, a, new_level) ==
    update_state([w EXCEPT !.lights[a] = scene_level(@, new_level)], a)

RECURSIVE notify_scene_from(_, _, _)
notify_scene_from(w, a, scene) ==
    IF a > MaxAddress \/ w.exc # "" THEN w
    ELSE notify_scene_from(notify_scene(w, a, scene), a + 1, scene)

\* a broadcast frame outside any light's send_cmd
broadcast_cmd(w, name, fault) ==
    IF w.bridge.dry_run THEN w
    ELSE IF fault THEN enter_fails(w, Broadcast)
    ELSE exit(sent(enter(w, Broadcast), name, Broadcast), Broadcast)

\* Bridge.scene_cmd(scene)
scene_cmd(w, scene, fault) ==
    LET w1 == broadcast_cmd(w, "GoToScene", fault)
    IN  IF w1.exc # "" THEN w1 ELSE notify_scene_from(w1, 0, scene)

\* Bridge.rescan_cmd()
rescan_cmd(w) ==
    [w EXCEPT !.lights = [a \in Addresses |-> [@[a] EXCEPT !.scanned = FALSE]]]

\* Bridge.inhibit_cmd()
inhibit_cmd(w, fault) == broadcast_cmd(w, "Inhibit", fault)

\* Bridge.reset_inhibit_cmd()
reset_inhibit_cmd(w, fault) == broadcast_cmd(w, "ReLightResetInhibit", fault)

\* Group.command(sd): logs only
Group_command(w, g, sd) == w


(***************************************************************************)
(* The passing of time: d seconds pass, so every stored timestamp is d     *)
(* further in the past.                                                    *)
(***************************************************************************)
elapse_lights(ls, d) ==
    LET shifted == [a \in Addresses |-> ls[a].last_update - d]
        old == {x \in {shifted[a] : a \in Addresses} : x <= 0 - MaxAge}
        rank(x) == Cardinality({y \in old : y > x})
    IN  [a \in Addresses |->
            [ls[a] EXCEPT !.last_update =
                IF shifted[a] <= 0 - MaxAge
                THEN 0 - MaxAge - rank(shifted[a])
                ELSE shifted[a]]]

\* a release time or deadline that has passed stays passed
elapse_time(t, d) == IF t <= now THEN t ELSE Max(t - d, now)

elapse_pending(q, d) ==
    [i \in 1..Len(q) |-> [q[i] EXCEPT !.t = elapse_time(@, d)]]

elapse_tasks(q, d) ==
    [i \in 1..Len(q) |-> <<elapse_time(q[i][1], d), q[i][2]>>]

(***************************************************************************)
(* hass.py, HomeAssistant.run: one loop iteration is                       *)
(*   top   -> (Reconnect)* -> Prepare (lines 271-290)                      *)
(*   loop  -> mqttc.loop(timeout): time passes, at most one callback runs  *)
(*   after -> lines 294-295: the head of current_tasks, if due             *)
(* An exception that escapes a handler leaves run: pc = "crashed".         *)
(***************************************************************************)
World == [lights |-> lights, groups |-> groups, bridge |-> bridge,
          hass |-> hass, bus |-> bus, exc |-> ""]

Elapsed(d) ==
    [World EXCEPT !.lights = elapse_lights(lights, d),
                  !.hass.pending_state_messages = elapse_pending(@, d)]

Commit(w) ==
    /\ lights' = w.lights
    /\ groups' = w.groups
    /\ bridge' = w.bridge
    /\ hass' = w.hass
    /\ bus' = w.bus

\* sorted(..., key=lambda x: x[0]) picking the first task: a mutant that
\* takes the tasks in list order
RECURSIVE unsorted_tasks(_, _)
unsorted_tasks(ls, todo) ==
    IF todo = {} THEN <<>>
    ELSE LET m == CHOOSE a \in todo : \A b \in todo : a <= b
         IN  <<<<deadline(ls[m]), m>>>> \o unsorted_tasks(ls, todo \ {m})

\* lines 272-275: the tasks that have a deadline, by deadline; sorted() is
\* stable, so equal deadlines stay in the order of self.tasks.
RECURSIVE sorted_tasks(_, _)
sorted_tasks(ls, todo) ==
    IF todo = {} THEN <<>>
    ELSE LET m == CHOOSE a \in todo : \A b \in todo :
                      \/ deadline(ls[a]) < deadline(ls[b])
                      \/ deadline(ls[a]) = deadline(ls[b]) /\ a <= b
         IN  <<<<deadline(ls[m]), m>>>> \o sorted_tasks(ls, todo \ {m})

\* lines 270-290
Prepare ==
    /\ pc = "top"
    /\ hass.connected
    /\ LET tasks == sorted_tasks(lights, {a \in Addresses : HasDeadline(lights[a])})
           t0 == IF tasks # <<>> THEN Max(tasks[1][1] - now, 0) ELSE IdleTimeout
           pending == hass.pending_state_messages
           release == pending # <<>> /\ now >= pending[1].t
           h0 == [hass EXCEPT !.mqttc = <<>>]
           h1 == IF release
                 THEN publish([h0 EXCEPT !.pending_state_messages = Tail(@)],
                              StateMessage(pending[1].topic, pending[1].payload))
                 ELSE h0
           t1 == IF pending # <<>> /\ ~release
                 THEN Min(pending[1].t - now, t0) ELSE t0
           w0 == [World EXCEPT !.hass = h1, !.bus.log = <<>>]
           w1 == IF t1 > 0 THEN idle(w0) ELSE w0
       IN  /\ Commit(w1)
           /\ current_tasks' = tasks
           /\ timeout' = t1
           /\ ran' = IF t1 > 0 THEN << <<"idle", 0>> >> ELSE <<>>
    /\ pc' = "loop"
    /\ UNCHANGED <<connack, wire, traffic>>

\* lines 263-268: mqttc.reconnect() succeeds, or is refused and run sleeps
Reconnect(ok) ==
    /\ pc = "top"
    /\ ~hass.connected
    /\ IF ok
       THEN /\ hass' = [hass EXCEPT !.connected = TRUE]
            /\ connack' = "pending"
            /\ UNCHANGED lights
       ELSE /\ hass' = [hass EXCEPT !.pending_state_messages =
                                        elapse_pending(@, 1)]
            /\ lights' = elapse_lights(lights, 1)
            /\ UNCHANGED connack
    /\ UNCHANGED <<groups, bridge, bus, pc, current_tasks, timeout, ran, wire,
                   traffic>>

\* mqttc.loop(timeout) returns when the timeout has passed, or before it
\* when something arrives.  Waiting longer than MaxAge is waiting MaxAge + 1.
Quiet == Min(timeout, MaxAge + 1)
Arrivals == 0..Quiet
\* ... or, when the time the handlers take is counted, after Overrun
\* seconds at least
Overrun == 1
Busy == Max(Quiet, Overrun)

\* mqttc.loop returned after d seconds, having run a callback that left w
Returned(w, d) ==
    /\ Commit(w)
    /\ pc' = IF w.exc = "" THEN "after" ELSE "crashed"
    /\ current_tasks' = elapse_tasks(current_tasks, d)
    /\ timeout' = 0
    /\ UNCHANGED <<ran, wire>>

\* line 291: nothing to dispatch
LoopQuiet(d) ==
    /\ pc = "loop"
    /\ connack # "pending"
    /\ Returned(Elapsed(d), d)
    /\ UNCHANGED <<connack, traffic>>

\* lines 292-293: rc == MQTT_ERR_CONN_LOST
LoopConnLost(d) ==
    /\ pc = "loop"
    /\ traffic < MaxTraffic
    /\ traffic' = traffic + 1
    /\ Returned([Elapsed(d) EXCEPT !.hass.connected = FALSE], d)
    /\ connack' = "none"

\* a state so far behind that update_all is not taken on top of it
MaxBacklog == 1
Backlogged == Len(hass.pending_state_messages) > MaxBacklog

\* HomeAssistant.on_connect with rc == 0
OnConnect(d) ==
    /\ pc = "loop"
    /\ connack = "pending"
    /\ ~Backlogged
    /\ Returned([Elapsed(d) EXCEPT !.hass = update_all(@)], d)
    /\ connack' = "accepted"
    /\ UNCHANGED traffic

\* HomeAssistant.on_connect with rc == 5: sys.exit(1); any other rc: nothing
OnConnectRefused(d, rc) ==
    /\ pc = "loop"
    /\ connack = "pending"
    /\ Commit(Elapsed(d))
    /\ pc' = IF rc = 5 THEN "exited" ELSE "after"
    /\ current_tasks' = elapse_tasks(current_tasks, d)
    /\ timeout' = 0
    /\ connack' = "refused"
    /\ UNCHANGED <<ran, wire, traffic>>

\* one more inbound message is delivered
Inbound ==
    /\ traffic < MaxTraffic
    /\ traffic' = traffic + 1

\* HomeAssistant.on_hass_status
OnHassStatus(d, payload) ==
    /\ pc = "loop"
    /\ connack = "accepted"
    /\ Inbound
    /\ ~Backlogged
    /\ Returned(IF payload = "online"
                THEN [Elapsed(d) EXCEPT !.hass = update_all(@)]
                ELSE Elapsed(d), d)
    /\ UNCHANGED connack

\* HomeAssistant.on_message for a light's command topic
OnLightCommand(d, a, sd, fault) ==
    /\ pc = "loop"
    /\ connack = "accepted"
    /\ Inbound
    /\ LightEntity(a) \in hass.command_topics
    /\ Returned(command(Elapsed(d), a, sd, fault), d)
    /\ UNCHANGED connack

\* ... for a scene's command topic
OnSceneCommand(d, scene, fault) ==
    /\ pc = "loop"
    /\ connack = "accepted"
    /\ Inbound
    /\ SceneEntity(scene) \in hass.command_topics
    /\ Returned(scene_cmd(Elapsed(d), scene, fault), d)
    /\ UNCHANGED connack

\* ... for the rescan button
OnRescan(d) ==
    /\ pc = "loop"
    /\ connack = "accepted"
    /\ Inbound
    /\ RescanEntity \in hass.command_topics
    /\ Returned(rescan_cmd(Elapsed(d)), d)
    /\ UNCHANGED connack

\* ... for the emergency buttons
OnInhibit(d, reset, fault) ==
    /\ pc = "loop"
    /\ connack = "accepted"
    /\ Inbound
    /\ InhibitEntity \in hass.command_topics
    /\ ResetInhibitEntity \in hass.command_topics
    /\ Returned(IF reset THEN reset_inhibit_cmd(Elapsed(d), fault)
                ELSE inhibit_cmd(Elapsed(d), fault), d)
    /\ UNCHANGED connack

\* ... for a group's command topic
OnGroupCommand(d, g, sd) ==
    /\ pc = "loop"
    /\ connack = "accepted"
    /\ Inbound
    /\ GroupEntity(g) \in hass.command_topics
    /\ Returned(Group_command(Elapsed(d), g, sd), d)
    /\ UNCHANGED connack

\* line 294
Due == current_tasks # <<>> /\ now >= current_tasks[1][1]

\* line 294 false
DispatchNothing ==
    /\ pc = "after"
    /\ ~Due
    /\ pc' = "top"
    /\ current_tasks' = <<>>
    /\ UNCHANGED <<lights, groups, bridge, hass, bus, timeout, connack, ran,
                   wire, traffic>>

\* line 295: current_tasks[0][1].background()
Dispatched(a, r) ==
    LET w == background(World, a, r)
    IN  /\ Commit(w)
        /\ pc' = IF w.exc = "" THEN "top" ELSE "crashed"
        /\ ran' = Append(ran, <<"background", a>>)
        /\ current_tasks' = <<>>
        /\ UNCHANGED <<timeout, connack, wire, traffic>>

\* current_tasks[0][1]
first_task == IF current_tasks # <<>> THEN current_tasks[1][2] ELSE 0

DispatchScan(r) ==
    /\ pc = "after"
    /\ Due
    /\ ~lights[first_task].scanned
    /\ Dispatched(first_task, r)

DispatchPoll(r) ==
    /\ pc = "after"
    /\ Due
    /\ lights[first_task].scanned
    /\ Dispatched(first_task, r)


(***************************************************************************)
(* The environment: configurations, what the bus answers, what Home        *)
(* Assistant sends.                                                        *)
(***************************************************************************)
\* cmdline/config: dry_run, groups, gear[0].brightness
Configurations ==
    { [dry_run |-> FALSE, groups_supported |-> TRUE, brightness |-> "absent"] }

Yes == Reply(StatusAnswer, YesValue)
No == Reply(StatusNoAnswer, 0)
Answer(v) == Reply(StatusAnswer, v)
Garbled == Reply(StatusFailure, 0)

ScanReply(present, dts_ok, dts, switched, limits, actual, lamp_failure, scene, grps) ==
    [fault |-> FALSE, present |-> present, dts_ok |-> dts_ok, dts |-> dts,
     switched |-> switched, physical_minimum |-> limits[1],
     min_level |-> limits[2], max_level |-> limits[3], actual |-> actual,
     lamp_failure |-> lamp_failure, scene |-> [s \in Scenes |-> scene],
     groups |-> grps]

Dimmer == <<Answer(1), Answer(1), Answer(3)>>
Narrow == <<Answer(2), Answer(2), Answer(2)>>
Unmasked == Answer(YesValue)

\* a working dimmer, and it with one thing changed at a time
Plain == ScanReply(Yes, TRUE, {}, FALSE, Dimmer, Answer(2), No, Unmasked, {})

\* what the gear at address 0 may answer to a scan; the gear at the other
\* addresses is absent or one narrow dimmer
ScanRepliesRich ==
    { [Plain EXCEPT !.fault = TRUE],
      [Plain EXCEPT !.present = No],
      [Plain EXCEPT !.dts_ok = FALSE],
      [Plain EXCEPT !.dts = {DtEmergency}],
      [Plain EXCEPT !.min_level = Garbled],
      [Plain EXCEPT !.actual = Garbled],
      [Plain EXCEPT !.scene = [s \in Scenes |-> Garbled]],
      Plain,
      ScanReply(Yes, TRUE, {}, FALSE, Dimmer, Answer(0), No, Answer(2), {0}),
      ScanReply(Yes, TRUE, {}, FALSE, Narrow, Answer(2), No, Answer(0), {0}) }

ScanRepliesPlain ==
    { [Plain EXCEPT !.present = No],
      ScanReply(Yes, TRUE, {}, FALSE, Narrow, Answer(2), No, Answer(2), {0}) }

ScanReplies(a) == IF a = 0 THEN ScanRepliesRich ELSE ScanRepliesPlain

PollReply(fault, actual, lamp_failure) ==
    [fault |-> fault, actual |-> actual, lamp_failure |-> lamp_failure]

\* a conforming device reports 0 or a level within its limits
PollReplies(a) ==
    { PollReply(TRUE, Answer(0), No), PollReply(FALSE, Garbled, No),
      PollReply(FALSE, Answer(0), No) }
    \cup { PollReply(FALSE, Unmasked, Yes) : x \in {a} \cap {0} }
    \cup { PollReply(FALSE, Answer(v), No) :
             v \in {lights[a].max_level} \cap 1..254 }

Brightnesses == {None} \cup 0..MaxBrightness
Transitions == {None, 1}

StatePayloads ==
    { [state |-> "ON", brightness |-> b, transition |-> t] :
        b \in Brightnesses, t \in Transitions }
    \cup { [state |-> "OFF", brightness |-> None, transition |-> t] :
             t \in Transitions }
    \cup { [state |-> "absent", brightness |-> None, transition |-> None] }

\* a "set state" message, and whether the bus can be reached to act on it
StateCommands ==
    { [sd |-> sd, fault |-> FALSE] : sd \in StatePayloads }
    \cup { [sd |-> [state |-> "ON", brightness |-> None, transition |-> None],
            fault |-> TRUE] }

(***************************************************************************)
(* cmdline.py: HomeAssistant(...), Bridge(...), then hass.run().           *)
(***************************************************************************)
\* Bridge.__init__ on a HomeAssistant that is not connected yet
Bridge_init(c) ==
    LET h0 == [HomeAssistant_init EXCEPT
                   !.state[StatusEntity] = Text("Initialising")]
        h1 == register_entity(register_entity(h0, StatusEntity), RescanEntity)
    IN  [lights |-> [a \in Addresses |-> Light_init],
         groups |-> <<>>,
         bridge |-> [dry_run |-> c.dry_run,
                     groups_supported |-> c.groups_supported,
                     has_emergency_units |-> FALSE, init_complete |-> FALSE,
                     scene_entities |-> {},
                     gear_config |-> [a \in Addresses |->
                         IF a = 0 THEN c.brightness ELSE "absent"]],
         hass |-> SensorEntity_set_state(h1, StatusEntity, Text("Starting")),
         bus |-> [_s |-> FALSE, log |-> <<>>],
         exc |-> ""]

NoReply == Reply(0, 0)
NoWire == [command |-> CommandNamed("Off"), first |-> NoReply,
           second |-> NoReply, out |-> Return(ResponseNone)]

\* main with the configuration c, up to the call of hass.run()
Started(c) ==
    /\ LET w == Bridge_init(c)
       IN  /\ lights = w.lights
           /\ groups = w.groups
           /\ bridge = w.bridge
           /\ hass = w.hass
           /\ bus = w.bus
    /\ pc = "top"
    /\ current_tasks = <<>>
    /\ timeout = 0
    /\ connack = "none"
    /\ ran = <<>>
    /\ wire = NoWire
    /\ traffic = 0

Init == \E c \in Configurations : Started(c)

Next ==
    \/ Prepare
    \/ \E ok \in BOOLEAN : Reconnect(ok)
    \/ LoopQuiet(Quiet)
    \/ \E d \in Arrivals : LoopConnLost(d)
    \/ OnConnect(0)
    \/ \E rc \in {4, 5} : OnConnectRefused(0, rc)
    \/ \E d \in Arrivals, payload \in {"online", "offline"} :
           OnHassStatus(d, payload)
    \/ \E d \in Arrivals, a \in Addresses, c \in StateCommands :
           OnLightCommand(d, a, c.sd, c.fault)
    \/ \E d \in Arrivals, scene \in Scenes, fault \in BOOLEAN :
           OnSceneCommand(d, scene, fault)
    \/ \E d \in Arrivals : OnRescan(d)
    \/ \E d \in Arrivals, reset \in BOOLEAN, fault \in BOOLEAN :
           OnInhibit(d, reset, fault)
    \/ \E d \in Arrivals, g \in GroupNumbers, sd \in StatePayloads :
           OnGroupCommand(d, g, sd)
    \/ DispatchNothing
    \/ \E r \in ScanReplies(first_task) : DispatchScan(r)
    \/ \E r \in PollReplies(first_task) : DispatchPoll(r)

Spec == Init /\ [][Next]_vars


(***************************************************************************)
(* The same program started with --dry-run.                                *)
(***************************************************************************)
DryConfigurations ==
    { [dry_run |-> TRUE, groups_supported |-> TRUE, brightness |-> "absent"] }

InitDry == \E c \in DryConfigurations : Started(c)

SpecDry == InitDry /\ [][Next]_vars


(***************************************************************************)
(* The gateway alone: one exchange of DaliServer._send with any command    *)
(* and any replies.                                                        *)
(***************************************************************************)
WireStatuses == {StatusNoAnswer, StatusAnswer, 2, StatusFailure}
WireValues == {0, YesValue}
WireReplies == {Reply(st, rv) : st \in WireStatuses, rv \in WireValues}

Exchange(c, first, second) ==
    /\ wire' = [command |-> c, first |-> first, second |-> second,
                out |-> _send(c, first, second)]
    /\ UNCHANGED <<lights, groups, bridge, hass, bus, pc, current_tasks,
                   timeout, connack, ran, traffic>>

NextWire ==
    \E c \in Commands, first \in WireReplies, second \in WireReplies :
        Exchange(c, first, second)

SpecWire == Init /\ [][NextWire]_vars

(***************************************************************************)
(* The driver's sequence engine alone: DaliServer.send called with a       *)
(* command or with a sequence, one pass of its loop at a time.  A sequence *)
(* is a generator; here it is the list of the instructions it yields, and  *)
(* it returns everything it was resumed with (a wrapped command returns    *)
(* the one value it was resumed with).                                     *)
(***************************************************************************)
MaxYields == 2           \* the longest sequence handed to send

SendFrame(c) == [kind |-> "frame", command |-> c, delay |-> 0]
Progress == [kind |-> "progress", command |-> CommandNamed("Off"), delay |-> 0]
Sleep == [kind |-> "sleep", command |-> CommandNamed("Off"), delay |-> 1]

\* the commands a sequence sends: without and with a device type, sent once
\* and twice, with and without a response, and one of 24 bits
SequenceCommands ==
    { CommandNamed(n) : n \in {"Off", "QueryActualLevel", "Inhibit",
                                "QueryEmergencyFeatures", "QueryInputValue"} }

Instructions == {SendFrame(c) : c \in SequenceCommands} \cup {Progress, Sleep}

RECURSIVE SequencesUpTo(_)
SequencesUpTo(n) ==
    IF n = 0 THEN { <<>> }
    ELSE LET shorter == SequencesUpTo(n - 1)
         IN  shorter \cup { Append(q, i) : q \in shorter, i \in Instructions }

SendSequences == SequencesUpTo(MaxYields)

\* what the gateway answers to a frame of a sequence
SequenceReplies == { No, Answer(0), Answer(YesValue), Reply(2, 0) }

\* a frame as it is on the wire: the command, and for EnableDeviceType the
\* device type it enables
Transmission(c, dt) == [command |-> c, enables |-> dt]

\* lines 76-80: s.send(message), and again for a send-twice command
transmissions(c, dt) ==
    IF c.bits # FrameBits THEN <<>>
    ELSE IF c.sendtwice THEN <<Transmission(c, dt), Transmission(c, dt)>>
    ELSE <<Transmission(c, dt)>>

\* send without lines 65-66 (a mutant: no command is enabled)
enable_never(c) == <<>>

\* lines 65-66: self._send(s, EnableDeviceType(cmd.devicetype))
enable(c) ==
    IF c.devicetype # 0
    THEN transmissions(CommandNamed("EnableDeviceType"), c.devicetype)
    ELSE <<>>

\* line 20-22: _wrap(command), the sequence of one yield
_wrap(c) == << SendFrame(c) >>

\* lines 47-52: the call starts; nothing was sent to the generator yet
send_start(seq, wrapped, progress) ==
    [status |-> "running", seq |-> seq, wrapped |-> wrapped,
     progress |-> progress, response |-> ResponseNone,
     yielded |-> <<>>, resumed |-> <<>>, sent |-> <<>>, called |-> 0,
     result |-> <<>>, raised |-> ""]

\* lines 53-67, one pass: seq.send(response), then the instruction yielded
send_step(e, first, second) ==
    LET resumed == Append(e.resumed, e.response)
    IN  IF e.seq = <<>>
        THEN [e EXCEPT !.status = "returned", !.resumed = resumed,
                       !.result = IF e.wrapped THEN << resumed[2] >>
                                  ELSE Tail(resumed)]
        ELSE LET cmd == Head(e.seq)
                 e1 == [e EXCEPT !.seq = Tail(@), !.resumed = resumed]
             IN  IF cmd.kind = "sleep"
                     THEN [e1 EXCEPT !.yielded = Append(@, [instr |-> cmd,
                                         out |-> Return(ResponseNone)])]
                 ELSE IF cmd.kind = "progress"
                     THEN [e1 EXCEPT !.yielded = Append(@, [instr |-> cmd,
                                         out |-> Return(ResponseNone)]),
                                     !.called = IF e.progress THEN @ + 1 ELSE @]
                 ELSE LET c == cmd.command
                          out == _send(c, first, second)
                          e2 == [e1 EXCEPT !.sent = @ \o enable(c)
                                                      \o transmissions(c, 0),
                                           !.yielded = Append(@, [instr |-> cmd,
                                                                  out |-> out])]
                      IN  IF out.raised # ""
                          THEN [e2 EXCEPT !.status = "raised",
                                          !.raised = out.raised]
                          ELSE [e2 EXCEPT !.response = out.response]

InCall == "status" \in DOMAIN wire
Running == InCall /\ wire.status = "running"

\* bus.send(command)
SendCommand(c, progress) ==
    /\ ~Running
    /\ wire' = send_start(_wrap(c), TRUE, progress)
    /\ UNCHANGED <<lights, groups, bridge, hass, bus, pc, current_tasks,
                   timeout, connack, ran, traffic>>

\* bus.send(sequence)
SendSequence(seq, progress) ==
    /\ ~Running
    /\ wire' = send_start(seq, FALSE, progress)
    /\ UNCHANGED <<lights, groups, bridge, hass, bus, pc, current_tasks,
                   timeout, connack, ran, traffic>>

SendStep(first, second) ==
    /\ Running
    /\ wire' = send_step(wire, first, second)
    /\ UNCHANGED <<lights, groups, bridge, hass, bus, pc, current_tasks,
                   timeout, connack, ran, traffic>>

NextSend ==
    \/ \E c \in SequenceCommands, progress \in BOOLEAN : SendCommand(c, progress)
    \/ \E seq \in SendSequences, progress \in BOOLEAN : SendSequence(seq, progress)
    \/ \E first \in SequenceReplies, second \in SequenceReplies :
           SendStep(first, second)

SpecSend == Init /\ [][NextSend]_vars

(***************************************************************************)
(* The bridge left to itself on a bus that opens and a broker that stays:  *)
(* two dimmers that answer a poll with their level or with a garbled       *)
(* frame.  An iteration that had no time to wait takes up to Overrun       *)
(* seconds.  run is a loop of calls that all return, so it keeps taking    *)
(* steps.                                                                  *)
(***************************************************************************)
SteadyScanReplies ==
    { ScanReply(Yes, TRUE, {}, FALSE, Narrow, Answer(2), No, Unmasked, {}) }

SteadyPollReplies(a) ==
    { PollReply(FALSE, Garbled, No), PollReply(FALSE, Answer(0), No) }
    \cup { PollReply(FALSE, Answer(v), No) :
             v \in {lights[a].max_level} \cap 1..254 }

NextSteady ==
    \/ Prepare
    \/ Reconnect(TRUE)
    \/ OnConnect(0)
    \/ \E d \in Arrivals \cup {Busy} : LoopQuiet(d)
    \/ DispatchNothing
    \/ \E r \in SteadyScanReplies : DispatchScan(r)
    \/ \E r \in SteadyPollReplies(first_task) : DispatchPoll(r)

SpecSteady == Init /\ [][NextSteady]_vars /\ WF_vars(NextSteady)


(***************************************************************************)
(* The claims.                                                             *)
(***************************************************************************)

\* C1, as stated: whenever an operation (set-state command, background
\* poll, scene recall, scan or rescan) takes a device's current_level from a
\* nonzero L to 0, previous_active_level is L right after it.
C1_ZeroTransition ==
    [][\A a \in Addresses :
          (lights[a].current_level > 0 /\ lights'[a].current_level = 0)
              => lights'[a].previous_active_level = lights[a].current_level]_vars

\* C1, amended: whenever an operation other than a scan (set-state command,
\* background poll, scene recall) takes a device's current_level from a
\* nonzero L to 0, previous_active_level is L right after it.  A scan is the
\* step that finds the device unscanned.
C1_ZeroTransitionOutsideScan ==
    [][\A a \in Addresses :
          (/\ lights[a].scanned
           /\ lights[a].current_level > 0
           /\ lights'[a].current_level = 0)
              => lights'[a].previous_active_level = lights[a].current_level]_vars

\* An Off has just been sent to a light that was lit at a level other than
\* its maximum: the level it had is the one remembered.
C1_Witness ==
    \E a \in Addresses :
        /\ pc = "after"
        /\ <<"Off", a>> \in Range(bus.log)
        /\ lights[a].current_level = 0
        /\ lights[a].previous_active_level > 0
        /\ lights[a].previous_active_level # lights[a].max_level

\* C2: a device that has completed a successful scan has, right after the
\* scan and after any set-state commands, polls and scene recalls,
\* current_level = 0 or min_level <= current_level <= max_level.
C2_LevelRange ==
    \A a \in Addresses :
        (/\ lights[a].is_light
         /\ IsNumber(lights[a].min_level)
         /\ IsNumber(lights[a].max_level)
         /\ IsNumber(lights[a].current_level))
            => \/ lights[a].current_level = 0
               \/ /\ lights[a].min_level <= lights[a].current_level
                  /\ lights[a].current_level <= lights[a].max_level

\* C3: for every scanned light, in every state in which a message can be
\* delivered and for every payload, handling the same set-state command a
\* second time leaves current_level as the first handling left it.
C3_Idempotent ==
    pc = "loop" =>
        \A a \in Addresses : lights[a].light_entity =>
            \A sd \in StatePayloads :
                LET once == command(World, a, sd, FALSE)
                    twice == command(once, a, sd, FALSE)
                IN  once.exc = ""
                        => /\ twice.exc = ""
                           /\ twice.lights[a].current_level
                                = once.lights[a].current_level

\* A lit light for which turning on without a brightness changes the level
\* (back to the remembered one), and turning on again changes nothing.
C3_Witness ==
    \E a \in Addresses :
        LET sd == [state |-> "ON", brightness |-> None, transition |-> None]
            once == command(World, a, sd, FALSE)
            twice == command(once, a, sd, FALSE)
        IN  /\ pc = "loop"
            /\ lights[a].light_entity
            /\ lights[a].current_level > 0
            /\ once.exc = ""
            /\ once.lights[a].current_level # lights[a].current_level
            /\ twice.lights[a].current_level = once.lights[a].current_level

SetMin(S) == CHOOSE x \in S : \A y \in S : x <= y
SetMax(S) == CHOOSE x \in S : \A y \in S : x >= y

\* C4: in every reachable state, a group with at least one member has the
\* maximum of its members' max_level, the minimum of their min_level, and
\* supports brightness iff one of them does.
C4_GroupAggregates ==
    \A i \in 1..Len(groups) :
        LET g == groups[i]
        IN  (/\ g.members # {}
             /\ \A m \in g.members : /\ IsNumber(lights[m].min_level)
                                     /\ IsNumber(lights[m].max_level))
                => /\ g.max_level = SetMax({lights[m].max_level : m \in g.members})
                   /\ g.min_level = SetMin({lights[m].min_level : m \in g.members})
                   /\ g.supports_brightness
                        <=> \E m \in g.members : lights[m].supports_brightness

\* C5: when an entity's first discovery message is published in a loop
\* iteration, no state message of that entity is published in that
\* iteration.
C5_Debounce ==
    [][\A e \in AllEntities :
          (/\ e \notin Range(hass.entities)
           /\ ConfigMessage(e) \in Range(hass'.mqttc))
              => \A i \in DOMAIN hass'.mqttc :
                     ~(/\ hass'.mqttc[i].kind = "state"
                       /\ hass'.mqttc[i].entity = e)]_vars


\* C6: after a successful (re)connect or an "online" status message every
\* state that update_all queued is published again in the end: run does not
\* end on an escaped exception with a queued state still unpublished.
C6_Republished ==
    pc = "crashed" => hass.pending_state_messages = <<>>

\* the snapshot of lines 272-275 holds the tasks that have a deadline, the
\* earliest first
EarliestFirst(tasks, ls) ==
    /\ \A a \in Addresses :
           HasDeadline(ls[a]) => /\ tasks # <<>>
                                 /\ tasks[1][1] <= deadline(ls[a])
    /\ tasks # <<>> => /\ HasDeadline(ls[tasks[1][2]])
                       /\ tasks[1][1] = deadline(ls[tasks[1][2]])

Invoked(log) == {i \in DOMAIN log : log[i][1] = "background"}

\* C9: in every loop iteration background is invoked on one task at most;
\* the task invoked is the one that had the earliest deadline when the
\* iteration computed the deadlines, and a task without deadline is not
\* invoked.
C9_Dispatch ==
    [][/\ pc' = "loop" => EarliestFirst(current_tasks', lights')
       /\ Cardinality(Invoked(ran')) <= 1
       /\ \A i \in Invoked(ran') :
              ran' # ran => /\ current_tasks # <<>>
                            /\ ran'[i][2] = current_tasks[1][2]
                            /\ HasDeadline(lights[ran'[i][2]])]_vars

\* The task invoked is not the first of the list: a light before it has a
\* deadline too, a later one.
C9_Witness ==
    \E a \in Addresses, b \in Addresses :
        /\ a < b
        /\ pc = "top"
        /\ <<"background", b>> \in Range(ran)
        /\ lights[a].scanned
        /\ lights[a].is_light


\* the replies _send received, and the one it decodes
Received == IF wire.command.sendtwice THEN {wire.first, wire.second}
            ELSE {wire.first}
Decoded == IF wire.command.sendtwice THEN wire.second ELSE wire.first
Exchanged == wire.out.raised # "UnsupportedFrameTypeError"
ExpectsResponse == Exchanged /\ wire.command.response # "None"

\* the same command answered with status 1 and the backward frame 255
AnsweredYes ==
    _send(wire.command, Answer(YesValue), Answer(YesValue)).response

C8_OtherStatusRaises ==
    Exchanged =>
        /\ (\E r \in Received :
                r.status \notin {StatusNoAnswer, StatusAnswer, StatusFailure})
               => wire.out.raised = "CommunicationError"
        /\ (\A r \in Received : r.status = StatusNoAnswer)
               => /\ wire.out.raised = ""
                  /\ wire.command.response # "None"
                         => wire.out.response = FrameNone

\* light b is due for its poll / has just been polled
PollDue(b) ==
    /\ lights[b].scanned
    /\ lights[b].is_light
    /\ lights[b].last_update + poll_interval <= now
Polled(b) == <<"background", b>> \in Range(ran)

\* C10: whatever a light answers to its polls, garbled frames every time
\* included, every light that is due for its poll is polled in the end.
C10_EveryDueLightPolled ==
    \A b \in Addresses : PollDue(b) ~> Polled(b)

\* a transaction of this iteration failed to open the socket to daliserver
TransportFailed ==
    \E a \in Addresses \cup {Broadcast} :
        <<"connect failed", a>> \in Range(bus.log)

\* C11: a socket failure during a scan, a poll or an inbound command aborts
\* that transaction only: run does not end by it, the loop goes on.
C11_TransportContained == TransportFailed => pc # "crashed"

\* C12: no scan, no poll and no idle task is run in a state where the
\* connection is marked lost, the iteration in which mqttc.loop reports the
\* loss included.
C12_NoTaskWhileDisconnected ==
    [][(ran' # ran /\ ran' # <<>>) => hass.connected]_vars

\* how many messages of one kind about entity e a log holds, and how many
\* state messages about it are queued
Published(log, kind, e) ==
    Cardinality({i \in 1..Len(log) : log[i].kind = kind /\ log[i].entity = e})
Queued(q, e) == Cardinality({i \in 1..Len(q) : q[i].topic = e})

\* C13: a handler that leaves an entity's encoded state as it was (its
\* set_state calls, if any, gave the value the entity had) publishes no
\* state message of that entity and queues none, unless it republishes the
\* entity's discovery message.
C13_NoRedundantPublication ==
    [][\A e \in AllEntities :
          (/\ pc \in {"loop", "after"}
           /\ hass'.state[e] = hass.state[e]
           /\ Published(hass'.mqttc, "config", e)
                = Published(hass.mqttc, "config", e))
          => /\ Published(hass'.mqttc, "state", e)
                 = Published(hass.mqttc, "state", e)
             /\ Queued(hass'.pending_state_messages, e)
                 = Queued(hass.pending_state_messages, e)]_vars

\* A poll has read the level the light had: update_state has called
\* set_state on the light's entities, connected, and nothing was published.
C13_Witness ==
    \E a \in Addresses :
        /\ pc = "top"
        /\ hass.connected
        /\ <<"background", a>> \in Range(ran)
        /\ <<"QueryActualLevel", a>> \in Range(bus.log)
        /\ lights[a].last_update = now
        /\ hass.state[LightEntity(a)] # NoState
        /\ Published(hass.mqttc, "state", LightEntity(a)) = 0
        /\ Published(hass.mqttc, "config", LightEntity(a)) = 0

\* a scanned light at a nonzero level within its limits
Lit(a) ==
    /\ lights[a].scanned
    /\ lights[a].is_light
    /\ lights[a].light_entity
    /\ lights[a].current_level > 0
    /\ IsNumber(lights[a].min_level)
    /\ lights[a].min_level <= lights[a].current_level
    /\ lights[a].current_level <= lights[a].max_level

\* the states the operations that take light a to level 0 leave: an OFF
\* command, a poll that reads 0, the recall of a scene stored as 0
Zeroed(a) ==
    { command(World, a,
              [state |-> "OFF", brightness |-> None, transition |-> t], FALSE) :
        t \in Transitions }
    \cup { poll(World, a, PollReply(FALSE, Answer(0), No)) }
    \cup { notify_scene(World, a, scene) :
             scene \in {x \in Scenes : lights[a].scenes[x] = 0} }

TurnOn(t) == [state |-> "ON", brightness |-> None, transition |-> t]

\* C14: for a scanned light at a nonzero level L within its limits, after
\* an OFF command, a poll reading 0 or a scene recall to 0 has taken the
\* level to 0, an ON command without brightness sets current_level back to L
\* and the light entity's state to ON, with brightness L when the light
\* supports brightness.
C14_RestoreOnTurnOn ==
    pc = "loop" =>
        \A a \in Addresses : Lit(a) =>
            \A off \in Zeroed(a), t \in Transitions :
                LET L == lights[a].current_level
                    on == command(off, a, TurnOn(t), FALSE)
                IN  /\ off.exc = ""
                    /\ off.lights[a].current_level = 0
                    /\ on.exc = ""
                    /\ on.lights[a].current_level = L
                    /\ on.hass.state[LightEntity(a)] =
                           json_dumps([state |-> "ON",
                                       brightness |->
                                           IF lights[a].supports_brightness
                                           THEN L ELSE None])

\* A light has gone from a level L below its maximum to 0 (a scan would
\* have remembered the maximum), and turning it on brings L back.
C14_Witness ==
    \E a \in Addresses :
        LET on == command(World, a, TurnOn(None), FALSE)
        IN  /\ pc = "loop"
            /\ lights[a].scanned
            /\ lights[a].is_light
            /\ lights[a].current_level = 0
            /\ lights[a].previous_active_level > 0
            /\ lights[a].previous_active_level < lights[a].max_level
            /\ hass.state[LightEntity(a)] = json_dumps(
                   [state |-> "OFF", brightness |-> None])
            /\ on.exc = ""
            /\ on.lights[a].current_level = lights[a].previous_active_level
            /\ on.hass.state[LightEntity(a)] = json_dumps(
                   [state |-> "ON",
                    brightness |-> lights[a].previous_active_level])

\* a scanned light whose limits and levels are all numbers
Settable(a) ==
    /\ lights[a].scanned
    /\ lights[a].is_light
    /\ lights[a].light_entity
    /\ IsNumber(lights[a].min_level)
    /\ IsNumber(lights[a].max_level)
    /\ IsNumber(lights[a].current_level)
    /\ IsNumber(lights[a].previous_active_level)

\* the target of a payload: 0 for OFF, else the brightness, else the
\* remembered level
Target(a, sd) ==
    IF sd.state # "ON" THEN 0
    ELSE IF sd.brightness # None THEN sd.brightness
    ELSE lights[a].previous_active_level

\* C15: a set-state command with a transition uses DAPC and stores the
\* target; without one, target 0 uses Off (level 0), a target at or below
\* min_level uses RecallMinLevel (level min_level), any other target at or
\* above max_level uses RecallMaxLevel (level max_level), any other target
\* uses DAPC (level the target).  One frame is sent.  ON with brightness 0
\* leaves the entity's state OFF, by Off when there is no transition.
C15_PrimitiveSelection ==
    pc = "loop" =>
        \A a \in Addresses : Settable(a) =>
            \A sd \in StatePayloads :
                LET target == Target(a, sd)
                    out == command(World, a, sd, FALSE)
                    frames == SubSeq(out.bus.log, Len(bus.log) + 1,
                                     Len(out.bus.log))
                    expected ==
                        IF sd.transition # None /\ sd.transition # 0
                            THEN <<"DAPC", target>>
                        ELSE IF target = 0 THEN <<"Off", 0>>
                        ELSE IF target <= lights[a].min_level
                            THEN <<"RecallMinLevel", lights[a].min_level>>
                        ELSE IF target >= lights[a].max_level
                            THEN <<"RecallMaxLevel", lights[a].max_level>>
                        ELSE <<"DAPC", target>>
                IN  /\ out.exc = ""
                    /\ frames = << <<"connect", a>>, <<expected[1], a>>,
                                   <<"close", a>> >>
                    /\ out.lights[a].current_level = expected[2]
                    /\ (sd.state = "ON" /\ sd.brightness = 0)
                           => /\ out.hass.state[LightEntity(a)] = json_dumps(
                                     [state |-> "OFF", brightness |-> None])
                              /\ sd.transition = None => expected[1] = "Off"

\* A command has just been carried out by RecallMaxLevel on a light whose
\* limits differ, and the level stored is max_level.
C15_Witness ==
    \E a \in Addresses :
        /\ pc = "after"
        /\ <<"RecallMaxLevel", a>> \in Range(bus.log)
        /\ lights[a].min_level < lights[a].max_level
        /\ lights[a].current_level = lights[a].max_level
        /\ lights[a].last_update = now

\* the frames that change the state of devices on the bus
CommandFrames ==
    {"DAPC", "Off", "RecallMinLevel", "RecallMaxLevel", "GoToScene",
     "Inhibit", "ReLightResetInhibit"}

\* what a command leaves of the devices and of the published entities
Outcome(w) == <<w.exc, w.lights, w.hass>>

Normal == [World EXCEPT !.bridge.dry_run = FALSE]

\* C16: started with --dry-run, the program never transmits a set-state,
\* scene-recall or inhibit/reset frame, and every such command leaves the
\* lights (current_level, previous_active_level and the rest) and the
\* entities' published state as the same command leaves them in normal mode
\* on a bus that can be reached.
C16_DryRun ==
    /\ bridge.dry_run
    /\ \A i \in 1..Len(bus.log) : bus.log[i][1] \notin CommandFrames
    /\ pc = "loop" =>
        /\ \A a \in Addresses : lights[a].light_entity =>
               \A sd \in StatePayloads :
                   Outcome(command(World, a, sd, FALSE))
                       = Outcome(command(Normal, a, sd, FALSE))
        /\ \A scene \in Scenes :
               Outcome(scene_cmd(World, scene, FALSE))
                   = Outcome(scene_cmd(Normal, scene, FALSE))
        /\ Outcome(inhibit_cmd(World, FALSE))
               = Outcome(inhibit_cmd(Normal, FALSE))
        /\ Outcome(reset_inhibit_cmd(World, FALSE))
               = Outcome(reset_inhibit_cmd(Normal, FALSE))

\* In dry-run mode a command has just turned a light off: the level is 0,
\* the level it had is remembered, OFF was published, and no connection to
\* the bus was made.
C16_Witness ==
    \E a \in Addresses :
        /\ bridge.dry_run
        /\ pc = "after"
        /\ traffic > 0
        /\ hass.connected
        /\ bus.log = <<>>
        /\ lights[a].last_update = now
        /\ lights[a].current_level = 0
        /\ lights[a].previous_active_level > 0
        /\ hass.mqttc = <<StateMessage(LightEntity(a), json_dumps(
               [state |-> "OFF", brightness |-> None]))>>

\* C17: entities are created once.  After every step the registry holds no
\* two entities with the same unique id, and it still holds, in the same
\* order, every entity it held before the step: the entities of a light, of
\* a scene and of the emergency units are registered at most once, and a
\* rescan removes none of them.
Registered(es, e) == Cardinality({ i \in 1..Len(es) : es[i] = e })

C17_EntitiesOnce ==
    [][ /\ \A e \in Range(hass'.entities) : Registered(hass'.entities, e) = 1
        /\ Len(hass.entities) <= Len(hass'.entities)
        /\ SubSeq(hass'.entities, 1, Len(hass.entities)) = hass.entities
      ]_vars

\* a light scanned again after a rescan: the scan ran in this iteration, and
\* none of the entities it found registered was announced again
C17_Witness ==
    /\ pc = "top"
    /\ \E a \in Addresses :
          /\ <<"background", a>> \in Range(ran)
          /\ <<"QuerySceneLevel", a>> \in Range(bus.log)
          /\ lights[a].scanned /\ lights[a].is_light
          /\ hass.connected /\ connack = "accepted"
          /\ Registered(hass.entities, LightEntity(a)) = 1
          /\ Published(hass.mqttc, "config", LightEntity(a)) = 0
          /\ \E sc \in Scenes :
                /\ lights[a].scenes[sc] # None
                /\ Registered(hass.entities, SceneEntity(sc)) = 1
                /\ Published(hass.mqttc, "config", SceneEntity(sc)) = 0
          /\ Published(hass.mqttc, "config", LightEntity(a)) = 0

\* C18: group announcement.  A group's entity is registered at most once.
\* The step that registers one is the idle call of run(), taken when every
\* address has scanned = TRUE and before init_complete was set; a step in
\* which a group is created or gains a member registers no group entity.
GroupEntities(h) == { g \in GroupNumbers : GroupEntity(g) \in Range(h.entities) }
Members(gs, g) == IF HasGroup(gs, g) THEN gs[GroupIndex(gs, g)].members ELSE {}

C18_GroupAnnouncedOnce ==
    [][ /\ \A g \in GroupNumbers :
              Registered(hass'.entities, GroupEntity(g)) <= 1
        /\ GroupEntities(hass') # GroupEntities(hass) =>
              /\ pc = "top" /\ pc' = "loop"
              /\ <<"idle", 0>> \in Range(ran')
              /\ \A a \in Addresses : lights[a].scanned /\ lights'[a].scanned
              /\ ~bridge.init_complete /\ bridge'.init_complete
        /\ (\E g \in GroupNumbers : Members(groups', g) # Members(groups, g)) =>
              GroupEntities(hass') = GroupEntities(hass)
      ]_vars

\* the idle call has just announced a group that has a member
C18_Witness ==
    /\ pc = "loop"
    /\ <<"idle", 0>> \in Range(ran)
    /\ \A a \in Addresses : lights[a].scanned
    /\ \E g \in GroupNumbers :
          /\ Members(groups, g) # {}
          /\ Registered(hass.entities, GroupEntity(g)) = 1
          /\ Published(hass.mqttc, "config", GroupEntity(g)) = 1

\* C19: the enable-device-type precondition, as stated: every transmission
\* of a command frame whose device type is not 0 comes immediately after
\* the transmission of an EnableDeviceType frame for that device type, and
\* no command of device type 0 comes immediately after one.
IsEnable(t) == t.command.name = "EnableDeviceType"
Enables(t, dt) == IsEnable(t) /\ t.enables = dt
CommandAt(i) == wire.sent[i].command

C19_EveryTransmissionEnabled ==
    InCall =>
        \A i \in 1..Len(wire.sent) :
            ~IsEnable(wire.sent[i]) =>
                IF CommandAt(i).devicetype # 0
                THEN i > 1 /\ Enables(wire.sent[i - 1], CommandAt(i).devicetype)
                ELSE i = 1 \/ ~IsEnable(wire.sent[i - 1])

\* C19, as the driver does it: a command frame whose device type is not 0
\* is transmitted immediately after an EnableDeviceType frame for that
\* device type, or, when the command is sent twice, immediately after its
\* own first transmission, which immediately follows that frame; no command
\* of device type 0 immediately follows an EnableDeviceType frame.
C19_FirstTransmissionEnabled ==
    InCall =>
        \A i \in 1..Len(wire.sent) :
            ~IsEnable(wire.sent[i]) =>
                IF CommandAt(i).devicetype # 0
                THEN \/ i > 1 /\ Enables(wire.sent[i - 1], CommandAt(i).devicetype)
                     \/ /\ CommandAt(i).sendtwice
                        /\ i > 2
                        /\ wire.sent[i - 1] = wire.sent[i]
                        /\ Enables(wire.sent[i - 2], CommandAt(i).devicetype)
                ELSE i = 1 \/ ~IsEnable(wire.sent[i - 1])

\* a sequence of a command of device type 0 and a send-twice command of
\* device type 1 was sent: four frames on the wire
C19_Witness ==
    /\ InCall
    /\ wire.status = "returned"
    /\ Len(wire.sent) = 4
    /\ CommandAt(1).devicetype = 0 /\ ~IsEnable(wire.sent[1])
    /\ Enables(wire.sent[2], DtEmergency)
    /\ CommandAt(3).name = "Inhibit"
    /\ wire.sent[4] = wire.sent[3]

\* C20: the resumption values of the sequence engine.  A sequence that
\* yielded a command to send is resumed with the response to that command;
\* one that yielded a progress report is resumed with no value; send returns
\* what the sequence returns, and a command alone returns its own response.
ResumedAfter(k) == wire.resumed[k + 1]
Returned20 == IF wire.wrapped THEN << wire.yielded[1].out.response >>
              ELSE [k \in 1..Len(wire.yielded) |-> ResumedAfter(k)]

C20_ResumptionValues ==
    InCall =>
        /\ \A k \in 1..(Len(wire.resumed) - 1) :
              /\ wire.yielded[k].instr.kind = "frame"
                    => ResumedAfter(k) = wire.yielded[k].out.response
              /\ wire.yielded[k].instr.kind = "progress"
                    => ResumedAfter(k) = ResponseNone
        /\ wire.status = "returned" => wire.result = Returned20

\* C21: scene recall.  A recall of scene N sends one GoToScene frame to the
\* broadcast address and no query.  Every device with a level cached for N
\* has current_level set to that level, previous_active_level set to the
\* level it leaves when it goes from a nonzero level to 0, and last_update
\* set to now; its light entity, when it has one, carries the state of the
\* new level, and a state message is published when that state is new.  A
\* device with no level cached for N keeps its current_level,
\* previous_active_level and last_update.
Mirror(l) ==
    json_dumps([state |-> IF l.current_level > 0 THEN "ON" ELSE "OFF",
                brightness |-> IF l.supports_brightness /\ l.current_level > 0
                               THEN l.current_level ELSE None])
Cached(a, scene) == lights[a].scenes[scene] # None
StateMessages(h, e) ==
    Cardinality({ i \in 1..Len(h.mqttc) :
                    h.mqttc[i] = StateMessage(e, h.state[e]) })

C21_SceneRecall ==
    pc = "loop" =>
        \A scene \in Scenes :
            LET out == scene_cmd(World, scene, FALSE)
                frames == SubSeq(out.bus.log, Len(bus.log) + 1,
                                 Len(out.bus.log))
            IN  /\ out.exc = ""
                /\ frames = << <<"connect", Broadcast>>,
                               <<"GoToScene", Broadcast>>,
                               <<"close", Broadcast>> >>
                /\ \A a \in Addresses :
                      LET l == lights[a]
                          m == out.lights[a]
                      IN  IF Cached(a, scene)
                          THEN /\ m.current_level = l.scenes[scene]
                               /\ m.previous_active_level =
                                     IF l.scenes[scene] = 0 /\ l.current_level # 0
                                     THEN l.current_level
                                     ELSE l.previous_active_level
                               /\ m.last_update = now
                               /\ l.light_entity =>
                                     /\ out.hass.state[LightEntity(a)] = Mirror(m)
                                     /\ hass.state[LightEntity(a)] # Mirror(m) =>
                                           StateMessages(out.hass, LightEntity(a))
                                             = StateMessages(
                                                 [hass EXCEPT !.state = out.hass.state],
                                                 LightEntity(a)) + 1
                          ELSE /\ m.current_level = l.current_level
                               /\ m.previous_active_level = l.previous_active_level
                               /\ m.last_update = l.last_update

\* a scene was recalled in this iteration: a lit light with 0 cached for it
\* is at 0, remembers the level it left, and its OFF state was published
C21_Witness ==
    /\ pc = "after"
    /\ <<"GoToScene", Broadcast>> \in Range(bus.log)
    /\ \E a \in Addresses, scene \in Scenes :
          /\ lights[a].scenes[scene] = 0
          /\ lights[a].current_level = 0
          /\ lights[a].previous_active_level > 0
          /\ lights[a].last_update = now
          /\ lights[a].light_entity
          /\ hass.state[LightEntity(a)] = Mirror(lights[a])
          /\ StateMessages(hass, LightEntity(a)) = 1

\* C22: one transaction per iteration.  Among the inbound commands handled
\* during the network wait of one loop iteration and the scan or poll
\* dispatched after it, at most one opens the bus.
Transactions == { i \in 1..Len(bus.log) : bus.log[i][1] = "connect" }

C22_OneTransaction == Cardinality(Transactions) <= 1

\* C23: scoped bus connection.  Whenever control is in run() between two
\* calls, no bus connection is open.  In the record of an iteration every
\* connection opened is closed, for the same transaction, before another is
\* opened or attempted, also when the iteration ended in an exception; and
\* every frame is sent inside a connection.
Brackets == {"connect", "close", "connect failed"}
ClosedAfter(i) ==
    \E j \in (i + 1)..Len(bus.log) :
        /\ bus.log[j] = <<"close", bus.log[i][2]>>
        /\ \A k \in (i + 1)..(j - 1) : bus.log[k][1] \notin Brackets
OpenBefore(k) ==
    \E i \in 1..(k - 1) :
        /\ bus.log[i] = <<"connect", bus.log[k][2]>>
        /\ \A j \in (i + 1)..(k - 1) : bus.log[j][1] \notin Brackets

C23_ScopedConnection ==
    /\ bus._s = FALSE
    /\ \A i \in 1..Len(bus.log) :
          /\ bus.log[i][1] = "connect" => ClosedAfter(i)
          /\ bus.log[i][1] \notin Brackets \cup {"close"} => OpenBefore(i)
          /\ bus.log[i][1] = "close" => i > 1 /\ OpenBefore(i)

\* a scan ended in an exception raised inside its transaction, and the
\* connection it had opened is closed
C23_Witness ==
    /\ pc = "crashed"
    /\ bus._s = FALSE
    /\ \E a \in Addresses :
          /\ <<"QueryControlGearPresent", a>> \in Range(bus.log)
          /\ bus.log[Len(bus.log)] = <<"close", a>>

\* C24: an early-stopped scan leaves a non-light.  After a scan of a device,
\* first or repeated, that stopped before the levels were read (no control
\* gear, no device types, an emergency unit that is not switched-maintained
\* gear), is_light is false and the device has no deadline.
StoppedEarly(a) ==
    /\ ~lights[a].scanned /\ lights'[a].scanned
    /\ <<"QueryControlGearPresent", a>> \in Range(bus'.log)
    /\ <<"QueryPhysicalMinimum", a>> \notin Range(bus'.log)

C24_EarlyStopNonLight ==
    [][ \A a \in Addresses :
            StoppedEarly(a) => /\ ~lights'[a].is_light
                               /\ ~HasDeadline(lights'[a])
      ]_vars

\* C25: a scan abandons on garbled responses.  A scan stores no value that
\* is not a number as physical minimum, minimum, maximum or current level
\* (each is a number after the scan, or what it was before), and a scan
\* that read such a value creates no entity.
Scanning(a) == ~lights[a].scanned /\ lights'[a].scanned
Kept(old, new) == IsNumber(new) \/ new = old
KeptLevels(l, m) ==
    /\ Kept(l.physical_minimum, m.physical_minimum)
    /\ Kept(l.min_level, m.min_level)
    /\ Kept(l.max_level, m.max_level)
    /\ Kept(l.current_level, m.current_level)

C25_ScanAbandons ==
    [][ \A a \in Addresses :
            Scanning(a) =>
                /\ KeptLevels(lights[a], lights'[a])
                /\ ~KeptLevels(lights[a], lights'[a]) =>
                      /\ lights'[a].light_entity = lights[a].light_entity
                      /\ lights'[a].is_light = lights[a].is_light
      ]_vars

\* C26: rescan liveness.  Once a rescan request has cleared scanned on every
\* device, every device is scanned again in the end.  For that, run() must
\* not have ended while a device that was scanned before (it has its light
\* entity) still waits for its scan.
AwaitsRescan(a) == lights[a].light_entity /\ ~lights[a].scanned

C26_RescanCompletes ==
    (\E a \in Addresses : AwaitsRescan(a)) => pc # "crashed"

\* C27: run only when due.  background() of a device is invoked only when
\* the deadline() the device has at that moment has passed; a device whose
\* last_update a command or scene recall advanced during the network wait of
\* the iteration is not polled in that iteration.
Invoking(a) == ran' = Append(ran, <<"background", a>>)

C27_RunOnlyWhenDue ==
    [][ \A a \in Addresses :
            Invoking(a) => /\ HasDeadline(lights[a])
                           /\ deadline(lights[a]) <= now
      ]_vars

\* C28: the published state converges to the current state.  A deferred
\* state message, when run() releases it, carries the current state of its
\* entity: it does not put an older value after a newer one that was
\* published while it waited.
Releasing ==
    /\ pc = "top" /\ pc' = "loop"
    /\ hass.pending_state_messages # <<>>
    /\ now >= hass.pending_state_messages[1].t

C28_DeferredIsCurrent ==
    [][ Releasing =>
            hass.pending_state_messages[1].payload
              = hass.state[hass.pending_state_messages[1].topic]
      ]_vars

\* C29: the entity mirrors the cached level.  Whenever control is in run()
\* between two calls, the state of every light entity is the state of its
\* device's current_level: OFF for 0, else ON, with the level as brightness
\* when the device supports brightness.
InScheduler == pc \in {"top", "loop", "after"}

C29_EntityMirrors ==
    InScheduler =>
        \A a \in Addresses :
            lights[a].light_entity =>
                hass.state[LightEntity(a)] = Mirror(lights[a])

====
